---- MODULE Spec2Model ----
(***************************************************************************)
(* Hyperion: the lease-based job scheduler of src/src/epoch.rs and the     *)
(* event log of src/src/vaultline.rs, as state machines.  One action per   *)
(* public method; every action is one whole call (the host serializes      *)
(* calls, spec section 5).  Spec and its variants run the scheduler,       *)
(* LogSpec runs the event log; the two share no state.                     *)
(***************************************************************************)
EXTENDS Integers, Sequences, FiniteSets, TLC

(***************************************************************************)
(* Bounds of the model.                                                    *)
(***************************************************************************)
\* enqueue is offered while fewer than MaxJobs ids have been allocated
MaxJobs == 2
\* dequeue is offered while fewer than MaxDeliveries jobs have been handed out
MaxDeliveries == 2
\* the clock stops advancing at MaxTime
MaxTime == 1

\* the kinds callers use; "default" is Scheduler::default_kind
default_kind == "default"
Kinds == {default_kind, "email"}
Payloads == {"A"}
\* lease durations handed to dequeue, in clock units (Duration::ZERO is accepted)
Durations == {0, 1}
\* ids handed to complete and fail: allocated or not (those from next_id on are not)
JobIdInputs == 1..MaxJobs

VARIABLES
    next_id,    \* Scheduler.next_id
    queued,     \* Scheduler.queued: kind -> queue of jobs, defined on the keys present
    leased,     \* Scheduler.leased: job id -> lease, defined on the keys present
    done,       \* Scheduler.done
    failed,     \* Scheduler.failed
    now,        \* the monotonic clock read by Instant::now()
    ret,        \* the last call on the scheduler and what it returned
    delivered,  \* history: job id -> how many times dequeue has returned it
    disk,       \* the backing file of the event log: whether it exists, and its lines
    vault,      \* handle -> the Vaultline it holds (mem, file), or none
    lret,       \* the last call on the event log and what it returned
    sent,       \* history: the file-backed appends so far, and whether all returned Ok
    replayed,   \* history, kept under ReplaySpec: load_from_disk has been called
    modules,    \* Runtime.modules: the registered modules, in registration order
    pass        \* the last call on the runtime: the module calls it made, its result

vars == <<next_id, queued, leased, done, failed, now, ret, delivered,
          disk, vault, lret, sent, replayed, modules, pass>>
sched == <<next_id, queued, leased, done, failed>>
schedvars == <<next_id, queued, leased, done, failed, now, ret, delivered>>
logvars == <<disk, vault, lret, sent, replayed>>
rtvars == <<modules, pass>>

(***************************************************************************)
(* Data: Job and Lease, and the map and queue operations the code uses.    *)
(***************************************************************************)
Job(id, kind, payload, created_at, attempts) ==
    [id |-> id, kind |-> kind, payload |-> payload,
     created_at |-> created_at, attempts |-> attempts]

\* a faulty lease: the deadline is Instant::now(), the duration is forgotten
Lease_without_duration(job, expires_at) == [job |-> job, expires_at |-> now]

Lease(job, expires_at) == [job |-> job, expires_at |-> expires_at]

\* a faulty increment: attempts is left as it was
saturating_add_none(attempts) == attempts

\* u32::saturating_add(1); the model's MaxDeliveries keeps attempts below u32::MAX,
\* where the addition starts to saturate
saturating_add(attempts) == attempts + 1

\* HashMap::insert: the entry for key k is created or overwritten
Insert(m, k, v) == [x \in (DOMAIN m) \cup {k} |-> IF x = k THEN v ELSE m[x]]

\* HashMap::remove: the map without key k
Remove(m, k) == [x \in (DOMAIN m) \ {k} |-> m[x]]

\* a faulty push: VecDeque::push_front
push_front(q, job) == <<job>> \o q

\* VecDeque::push_back
push_back(q, job) == Append(q, job)

\* queued.entry(job.kind).or_insert_with(VecDeque::new).push_back(job)
Requeue(q, job) ==
    IF job.kind \in DOMAIN q
    THEN [q EXCEPT ![job.kind] = push_back(@, job)]
    ELSE Insert(q, job.kind, push_back(<<>>, job))

\* the queue of a kind as dequeue sees it: none for a key that is absent
QueueOf(q, kind) == IF kind \in DOMAIN q THEN q[kind] ELSE <<>>

RECURSIVE SumLen(_, _)
SumLen(q, ks) ==
    IF ks = {} THEN 0
    ELSE LET k == CHOOSE x \in ks : TRUE
         IN Len(q[k]) + SumLen(q, ks \ {k})

\* Scheduler::depth
depth == SumLen(queued, DOMAIN queued)

\* Scheduler::leased_count
leased_count == Cardinality(DOMAIN leased)

(***************************************************************************)
(* Scheduler::new                                                          *)
(***************************************************************************)
SchedulerNew ==
    /\ next_id = 1
    /\ queued = <<>>
    /\ leased = <<>>
    /\ done = <<>>
    /\ failed = <<>>
    /\ now = 0
    /\ ret = [op |-> "new"]
    /\ delivered = [i \in 1..MaxJobs |-> 0]

\* no event log is in use
NoLog ==
    /\ disk = [exists |-> FALSE, lines |-> <<>>, eol |-> TRUE]
    /\ vault = <<>>
    /\ lret = [op |-> "none"]
    /\ sent = [clean |-> TRUE, events |-> <<>>]
    /\ replayed = FALSE

\* Runtime::new
RuntimeNew ==
    /\ modules = <<>>
    /\ pass = [op |-> "new", calls |-> <<>>, result |-> "Ok"]

Init == SchedulerNew /\ NoLog /\ RuntimeNew

(***************************************************************************)
(* Scheduler::enqueue and enqueue_default                                  *)
(***************************************************************************)
\* a faulty enqueue: next_id is read and never advanced
EnqueueBody_same_id(op, kind, payload) ==
    LET id == next_id
        job == Job(id, kind, payload, now, 0)
    IN /\ queued' = Requeue(queued, job)
       /\ ret' = [op |-> op, kind |-> kind, id |-> id]
       /\ UNCHANGED <<next_id, leased, done, failed, now, delivered>>

EnqueueBody(op, kind, payload) ==
    LET id == next_id
        job == Job(id, kind, payload, now, 0)
    IN /\ next_id' = next_id + 1
       /\ queued' = Requeue(queued, job)
       /\ ret' = [op |-> op, kind |-> kind, id |-> id]
       /\ UNCHANGED <<leased, done, failed, now, delivered>>

enqueue(kind, payload) ==
    /\ next_id <= MaxJobs
    /\ EnqueueBody("enqueue", kind, payload)

enqueue_default(payload) ==
    /\ next_id <= MaxJobs
    /\ EnqueueBody("enqueue_default", default_kind, payload)

RECURSIVE SumOver(_, _)
SumOver(f, S) ==
    IF S = {} THEN 0
    ELSE LET x == CHOOSE y \in S : TRUE
         IN f[x] + SumOver(f, S \ {x})

\* how many jobs dequeue has handed out so far
TotalDelivered == SumOver(delivered, DOMAIN delivered)

(***************************************************************************)
(* Scheduler::dequeue                                                      *)
(***************************************************************************)
\* a faulty dequeue: the head is read with front() and stays in the queue
dequeue_keeps_head(kind, lease_duration) ==
    IF kind \notin DOMAIN queued \/ QueueOf(queued, kind) = <<>>
    THEN /\ ret' = [op |-> "dequeue", kind |-> kind, out |-> <<>>]
         /\ UNCHANGED <<next_id, queued, leased, done, failed, now, delivered>>
    ELSE LET head == Head(queued[kind])
             job == [head EXCEPT !.attempts = saturating_add(head.attempts)]
             lease == Lease(job, now + lease_duration)
         IN /\ TotalDelivered < MaxDeliveries
            /\ leased' = Insert(leased, job.id, lease)
            /\ delivered' = [delivered EXCEPT ![job.id] = @ + 1]
            /\ ret' = [op |-> "dequeue", kind |-> kind, out |-> <<job>>]
            /\ UNCHANGED <<next_id, queued, done, failed, now>>

\* a faulty dequeue: the queue is looked up with entry(kind).or_default(), which
\* creates the queue of a kind that has none
dequeue_creates_queue(kind, lease_duration) ==
    IF kind \notin DOMAIN queued
    THEN /\ queued' = Insert(queued, kind, <<>>)
         /\ ret' = [op |-> "dequeue", kind |-> kind, out |-> <<>>]
         /\ UNCHANGED <<next_id, leased, done, failed, now, delivered>>
    ELSE IF queued[kind] = <<>>
    THEN /\ ret' = [op |-> "dequeue", kind |-> kind, out |-> <<>>]
         /\ UNCHANGED <<next_id, queued, leased, done, failed, now, delivered>>
    ELSE LET head == Head(queued[kind])
             job == [head EXCEPT !.attempts = saturating_add(head.attempts)]
             lease == Lease(job, now + lease_duration)
         IN /\ TotalDelivered < MaxDeliveries
            /\ queued' = [queued EXCEPT ![kind] = Tail(@)]
            /\ leased' = Insert(leased, job.id, lease)
            /\ delivered' = [delivered EXCEPT ![job.id] = @ + 1]
            /\ ret' = [op |-> "dequeue", kind |-> kind, out |-> <<job>>]
            /\ UNCHANGED <<next_id, done, failed, now>>

dequeue(kind, lease_duration) ==
    IF kind \notin DOMAIN queued \/ QueueOf(queued, kind) = <<>>
    THEN \* the two `?` of lines 73 and 74: None, nothing changed
         /\ ret' = [op |-> "dequeue", kind |-> kind, out |-> <<>>]
         /\ UNCHANGED <<next_id, queued, leased, done, failed, now, delivered>>
    ELSE LET head == Head(queued[kind])
             job == [head EXCEPT !.attempts = saturating_add(head.attempts)]
             lease == Lease(job, now + lease_duration)
         IN /\ TotalDelivered < MaxDeliveries
            /\ queued' = [queued EXCEPT ![kind] = Tail(@)]
            /\ leased' = Insert(leased, job.id, lease)
            /\ delivered' = [delivered EXCEPT ![job.id] = @ + 1]
            /\ ret' = [op |-> "dequeue", kind |-> kind, out |-> <<job>>]
            /\ UNCHANGED <<next_id, done, failed, now>>

(***************************************************************************)
(* Scheduler::complete                                                     *)
(***************************************************************************)
\* a faulty complete: the lease is read with get() and stays in the table
complete_keeps_lease(job_id) ==
    IF job_id \in DOMAIN leased
    THEN /\ done' = Append(done, leased[job_id].job)
         /\ ret' = [op |-> "complete", job_id |-> job_id, result |-> "Ok"]
         /\ UNCHANGED <<next_id, queued, leased, failed, now, delivered>>
    ELSE /\ ret' = [op |-> "complete", job_id |-> job_id, result |-> "NotLeased"]
         /\ UNCHANGED <<next_id, queued, leased, done, failed, now, delivered>>

\* a stricter complete: a lease whose deadline has passed is refused
complete_rejects_expired(job_id) ==
    IF job_id \in DOMAIN leased /\ leased[job_id].expires_at > now
    THEN /\ leased' = Remove(leased, job_id)
         /\ done' = Append(done, leased[job_id].job)
         /\ ret' = [op |-> "complete", job_id |-> job_id, result |-> "Ok"]
         /\ UNCHANGED <<next_id, queued, failed, now, delivered>>
    ELSE /\ ret' = [op |-> "complete", job_id |-> job_id, result |-> "NotLeased"]
         /\ UNCHANGED <<next_id, queued, leased, done, failed, now, delivered>>

\* a faulty complete: the missing lease is swallowed and Ok(()) returned
complete_always_ok(job_id) ==
    IF job_id \in DOMAIN leased
    THEN /\ leased' = Remove(leased, job_id)
         /\ done' = Append(done, leased[job_id].job)
         /\ ret' = [op |-> "complete", job_id |-> job_id, result |-> "Ok"]
         /\ UNCHANGED <<next_id, queued, failed, now, delivered>>
    ELSE /\ ret' = [op |-> "complete", job_id |-> job_id, result |-> "Ok"]
         /\ UNCHANGED <<next_id, queued, leased, done, failed, now, delivered>>

complete(job_id) ==
    IF job_id \in DOMAIN leased
    THEN /\ leased' = Remove(leased, job_id)
         /\ done' = Append(done, leased[job_id].job)
         /\ ret' = [op |-> "complete", job_id |-> job_id, result |-> "Ok"]
         /\ UNCHANGED <<next_id, queued, failed, now, delivered>>
    ELSE /\ ret' = [op |-> "complete", job_id |-> job_id, result |-> "NotLeased"]
         /\ UNCHANGED <<next_id, queued, leased, done, failed, now, delivered>>

(***************************************************************************)
(* Scheduler::fail                                                         *)
(***************************************************************************)
\* a faulty fail: the lease is read with get() and stays in the table
fail_keeps_lease(job_id) ==
    IF job_id \in DOMAIN leased
    THEN /\ queued' = Requeue(queued, leased[job_id].job)
         /\ failed' = Append(failed, leased[job_id].job)
         /\ ret' = [op |-> "fail", job_id |-> job_id, result |-> "Ok"]
         /\ UNCHANGED <<next_id, leased, done, now, delivered>>
    ELSE /\ ret' = [op |-> "fail", job_id |-> job_id, result |-> "NotLeased"]
         /\ UNCHANGED <<next_id, queued, leased, done, failed, now, delivered>>

\* a faulty fail: the job is recorded as failed and never put back in its queue
fail_drops_job(job_id) ==
    IF job_id \in DOMAIN leased
    THEN /\ leased' = Remove(leased, job_id)
         /\ failed' = Append(failed, leased[job_id].job)
         /\ ret' = [op |-> "fail", job_id |-> job_id, result |-> "Ok"]
         /\ UNCHANGED <<next_id, queued, done, now, delivered>>
    ELSE /\ ret' = [op |-> "fail", job_id |-> job_id, result |-> "NotLeased"]
         /\ UNCHANGED <<next_id, queued, leased, done, failed, now, delivered>>

fail(job_id) ==
    IF job_id \in DOMAIN leased
    THEN /\ leased' = Remove(leased, job_id)
         /\ queued' = Requeue(queued, leased[job_id].job)
         /\ failed' = Append(failed, leased[job_id].job)
         /\ ret' = [op |-> "fail", job_id |-> job_id, result |-> "Ok"]
         /\ UNCHANGED <<next_id, done, now, delivered>>
    ELSE /\ ret' = [op |-> "fail", job_id |-> job_id, result |-> "NotLeased"]
         /\ UNCHANGED <<next_id, queued, leased, done, failed, now, delivered>>

(***************************************************************************)
(* Scheduler::reclaim_expired                                              *)
(***************************************************************************)
\* a faulty deadline test: lease.expires_at < now
IsExpired_strict(lease, t) == lease.expires_at < t

\* lease.expires_at <= now
IsExpired(lease, t) == lease.expires_at <= t

\* the ids the filter_map of lines 116-120 collects
ExpiredIds(l, t) == {id \in DOMAIN l : IsExpired(l[id], t)}

\* a faulty table: an ordered map, which yields the ids of S in ascending order
OrdersById(S) ==
    {o \in [1..Cardinality(S) -> S] : \A i, j \in DOMAIN o : i < j => o[i] < o[j]}

\* the orders in which iterating the HashMap can yield the ids of S
Orders(S) ==
    {o \in [1..Cardinality(S) -> S] : \A i, j \in DOMAIN o : o[i] = o[j] => i = j}

\* the loop of lines 122-129 over expired_ids, from position i on
RECURSIVE ReclaimLoop(_, _, _, _)
ReclaimLoop(q, l, ids, i) ==
    IF i > Len(ids) THEN <<q, l>>
    ELSE IF ids[i] \in DOMAIN l
         THEN ReclaimLoop(Requeue(q, l[ids[i]].job), Remove(l, ids[i]), ids, i + 1)
         ELSE ReclaimLoop(q, l, ids, i + 1)

\* a faulty reclaim: like fail, every reclaimed job is also pushed to `failed`
RECURSIVE ReclaimLoopRecording(_, _, _, _, _)
ReclaimLoopRecording(q, l, f, ids, i) ==
    IF i > Len(ids) THEN <<q, l, f>>
    ELSE IF ids[i] \in DOMAIN l
         THEN ReclaimLoopRecording(Requeue(q, l[ids[i]].job), Remove(l, ids[i]),
                                   Append(f, l[ids[i]].job), ids, i + 1)
         ELSE ReclaimLoopRecording(q, l, f, ids, i + 1)

reclaim_expired_records_failed ==
    \E expired_ids \in Orders(ExpiredIds(leased, now)) :
        LET after == ReclaimLoopRecording(queued, leased, failed, expired_ids, 1)
        IN /\ queued' = after[1]
           /\ leased' = after[2]
           /\ failed' = after[3]
           /\ ret' = [op |-> "reclaim_expired"]
           /\ UNCHANGED <<next_id, done, now, delivered>>

reclaim_expired ==
    \E expired_ids \in Orders(ExpiredIds(leased, now)) :
        LET after == ReclaimLoop(queued, leased, expired_ids, 1)
        IN /\ queued' = after[1]
           /\ leased' = after[2]
           /\ ret' = [op |-> "reclaim_expired"]
           /\ UNCHANGED <<next_id, done, failed, now, delivered>>

(***************************************************************************)
(* Time passing between calls (Instant::now() is monotonic)                *)
(***************************************************************************)
Tick ==
    /\ now < MaxTime
    /\ now' = now + 1
    /\ ret' = [op |-> "tick"]
    /\ UNCHANGED <<next_id, queued, leased, done, failed, delivered>>

Next ==
    \/ (\E kind \in Kinds, payload \in Payloads : enqueue(kind, payload)) /\ UNCHANGED <<logvars, rtvars>>
    \/ (\E payload \in Payloads : enqueue_default(payload)) /\ UNCHANGED <<logvars, rtvars>>
    \/ (\E kind \in Kinds, d \in Durations : dequeue(kind, d)) /\ UNCHANGED <<logvars, rtvars>>
    \/ (\E job_id \in JobIdInputs : complete(job_id)) /\ UNCHANGED <<logvars, rtvars>>
    \/ (\E job_id \in JobIdInputs : fail(job_id)) /\ UNCHANGED <<logvars, rtvars>>
    \/ reclaim_expired /\ UNCHANGED <<logvars, rtvars>>
    \/ Tick /\ UNCHANGED <<logvars, rtvars>>

Spec == Init /\ [][Next]_vars

\* the calls of C12, for the jobs of one kind: workers complete or fail only jobs
\* they hold a lease on
FairNext ==
    \/ (\E payload \in Payloads : enqueue_default(payload)) /\ UNCHANGED <<logvars, rtvars>>
    \/ (\E d \in Durations : dequeue(default_kind, d)) /\ UNCHANGED <<logvars, rtvars>>
    \/ (\E job_id \in DOMAIN leased : complete(job_id)) /\ UNCHANGED <<logvars, rtvars>>
    \/ (\E job_id \in DOMAIN leased : fail(job_id)) /\ UNCHANGED <<logvars, rtvars>>
    \/ reclaim_expired /\ UNCHANGED <<logvars, rtvars>>
    \/ Tick /\ UNCHANGED <<logvars, rtvars>>

\* the caller of C12: time keeps advancing, and reclaim_expired and dequeue of
\* the job's kind keep being called
Fairness ==
    /\ WF_vars(Tick /\ UNCHANGED <<logvars, rtvars>>)
    /\ WF_vars(reclaim_expired /\ UNCHANGED <<logvars, rtvars>>)
    /\ WF_vars((\E d \in Durations : dequeue(default_kind, d)) /\ UNCHANGED <<logvars, rtvars>>)

FairSpec == Init /\ [][FairNext]_vars /\ Fairness

\* a caller that only enqueues and dequeues (C15)
EnqDeqNext ==
    \/ (\E kind \in Kinds, payload \in Payloads : enqueue(kind, payload)) /\ UNCHANGED <<logvars, rtvars>>
    \/ (\E payload \in Payloads : enqueue_default(payload)) /\ UNCHANGED <<logvars, rtvars>>
    \/ (\E kind \in Kinds, d \in Durations : dequeue(kind, d)) /\ UNCHANGED <<logvars, rtvars>>
    \/ Tick /\ UNCHANGED <<logvars, rtvars>>

EnqDeqSpec == Init /\ [][EnqDeqNext]_vars

(***************************************************************************)
(* What an observer of the scheduler sees.                                 *)
(***************************************************************************)
\* the places <<kind, index>> of the kind queues
QueuePlaces == UNION {{<<k, i>> : i \in DOMAIN queued[k]} : k \in DOMAIN queued}
QueuedJobs == UNION {{queued[k][i] : i \in DOMAIN queued[k]} : k \in DOMAIN queued}
QueuedIds == {j.id : j \in QueuedJobs}
LeasedJobs == {leased[id].job : id \in DOMAIN leased}
LeasedIds == {j.id : j \in LeasedJobs}
DoneIds == {done[i].id : i \in DOMAIN done}
AllIds == QueuedIds \cup LeasedIds \cup DoneIds
IsPrefix(s, t) == Len(s) <= Len(t) /\ SubSeq(t, 1, Len(s)) = s
EnqueueOps == {"enqueue", "enqueue_default"}
\* the last call was a dequeue that handed out a job
Delivered == ret.op = "dequeue" /\ ret.out # <<>>

(***************************************************************************)
(* C1: a job id is in at most one of {the kind queues, the lease table},   *)
(* and at most once across all kind queues; a lease is filed under the id  *)
(* of its job.                                                             *)
(***************************************************************************)
JobInOnePlace ==
    /\ \A p1, p2 \in QueuePlaces :
          queued[p1[1]][p1[2]].id = queued[p2[1]][p2[2]].id => p1 = p2
    /\ \A id \in DOMAIN leased : leased[id].job.id = id
    /\ QueuedIds \cap (DOMAIN leased) = {}

\* a job that went back to a queue after a delivery, next to a live lease
JobInOnePlace_witness ==
    /\ \E j \in QueuedJobs : j.attempts > 0
    /\ DOMAIN leased # {}

(***************************************************************************)
(* C2: a lease is an exclusive checkout.  dequeue hands out a job only     *)
(* when the job has no lease, and a job that held a lease is back in a     *)
(* queue (where dequeue can find it) only by the fail or reclaim_expired   *)
(* call that removed that lease.                                           *)
(***************************************************************************)
LeaseExclusive ==
    [][\A id \in 1..MaxJobs :
          /\ (Delivered' /\ ret'.out[1].id = id)
                => /\ id \notin DOMAIN leased
                   /\ id \in QueuedIds
                   /\ id \in DOMAIN leased'
                   /\ id \notin QueuedIds'
          /\ (id \in DOMAIN leased /\ id \in QueuedIds')
                => /\ ret'.op \in {"fail", "reclaim_expired"}
                   /\ id \notin DOMAIN leased'
          /\ (id \notin DOMAIN leased /\ id \in DOMAIN leased')
                => (Delivered' /\ ret'.out[1].id = id)
      ]_vars

\* a second delivery of a job, after its first lease was reclaimed
LeaseExclusive_witness ==
    /\ Delivered
    /\ ret.out[1].attempts = 2
    /\ failed = <<>>
    /\ DOMAIN leased = {ret.out[1].id}

(***************************************************************************)
(* C3: completion is terminal.  complete(id) on a leased job returns Ok,   *)
(* removes the lease and appends the job to done; from then on the id is   *)
(* in no queue and has no lease, and complete(id) and fail(id) return      *)
(* NotLeased.                                                              *)
(***************************************************************************)
CompleteIsTerminal ==
    [][/\ \A id \in DOMAIN leased :
             (ret'.op = "complete" /\ ret'.job_id = id)
                => /\ ret'.result = "Ok"
                   /\ id \notin DOMAIN leased'
                   /\ id \notin QueuedIds'
                   /\ done' = Append(done, leased[id].job)
       /\ \A id \in DoneIds :
             /\ id \in DoneIds'
             /\ id \notin QueuedIds'
             /\ id \notin DOMAIN leased'
             /\ (ret'.op \in {"complete", "fail"} /\ ret'.job_id = id)
                   => ret'.result = "NotLeased"
      ]_vars

\* fail(id) refused on a completed job
CompleteIsTerminal_witness ==
    /\ ret.op = "fail"
    /\ ret.job_id \in DoneIds
    /\ ret.result = "NotLeased"

(***************************************************************************)
(* C4: complete(id) and fail(id) on an id that has no lease return         *)
(* NotLeased and change nothing of the scheduler.                          *)
(***************************************************************************)
NotLeasedChangesNothing ==
    [][(ret'.op \in {"complete", "fail"} /\ ret'.job_id \notin DOMAIN leased)
          => /\ ret'.result = "NotLeased"
             /\ UNCHANGED sched
      ]_vars

\* complete(id) refused on a job that was reclaimed or failed and waits in its queue
NotLeasedChangesNothing_witness ==
    /\ ret.op = "complete"
    /\ ret.result = "NotLeased"
    /\ \E j \in QueuedJobs : j.id = ret.job_id /\ j.attempts > 0

(***************************************************************************)
(* C5: per-kind FIFO.  dequeue(kind, d) on a non-empty queue returns the   *)
(* head of that kind's queue (with attempts bumped) and leaves the rest;   *)
(* every other change of a queue only adds behind what is already there;   *)
(* a job handed out by dequeue(kind, d) is of that kind.                   *)
(***************************************************************************)
PerKindFifo ==
    [][\A kind \in Kinds :
          LET q == QueueOf(queued, kind)
              q2 == QueueOf(queued', kind)
          IN /\ (ret'.op = "dequeue" /\ ret'.kind = kind /\ q # <<>>)
                   => /\ ret'.out # <<>>
                      /\ [ret'.out[1] EXCEPT !.attempts = Head(q).attempts] = Head(q)
                      /\ ret'.out[1].kind = kind
                      /\ q2 = Tail(q)
             /\ ~(ret'.op = "dequeue" /\ ret'.kind = kind /\ q # <<>>)
                   => IsPrefix(q, q2)
             /\ \A i \in 1..Len(q2) : q2[i].kind = kind
      ]_vars

\* the younger job 2 is served while the older job 1, put back behind it, waits
PerKindFifo_witness ==
    /\ Delivered
    /\ ret.out[1].id = 2
    /\ \E j \in QueuedJobs : j.id = 1 /\ j.kind = ret.kind /\ j.attempts = 1

(***************************************************************************)
(* C6: attempts counts deliveries.  The attempts of every job, in a queue, *)
(* in the lease table, in done, or just returned by dequeue, is the number *)
(* of times dequeue has returned that job id (0 for a job never handed     *)
(* out).                                                                   *)
(***************************************************************************)
AttemptsCountDeliveries ==
    /\ \A j \in QueuedJobs \cup LeasedJobs : j.attempts = delivered[j.id]
    /\ \A i \in DOMAIN done : done[i].attempts = delivered[done[i].id]
    /\ Delivered => ret.out[1].attempts = delivered[ret.out[1].id]
    /\ ret.op \in EnqueueOps => \E j \in QueuedJobs : j.id = ret.id /\ j.attempts = 0

\* a job handed out a second time carries attempts = 2
AttemptsCountDeliveries_witness ==
    /\ Delivered
    /\ ret.out[1].attempts = 2
    /\ delivered[ret.out[1].id] = 2

(***************************************************************************)
(* C7: job ids are unique and never reused.  enqueue and enqueue_default   *)
(* return next_id and advance it by one; the ids held before the call are  *)
(* exactly 1 .. next_id - 1, so the first id is 1 and each new id is above *)
(* all earlier ones; no other call changes next_id or the set of ids held. *)
(***************************************************************************)
IdsIncreaseNeverReused ==
    [][/\ ret'.op \in EnqueueOps
             => /\ ret'.id = next_id
                /\ next_id' = next_id + 1
                /\ AllIds = 1..(next_id - 1)
                /\ AllIds' = 1..ret'.id
       /\ ret'.op \notin EnqueueOps
             => /\ next_id' = next_id
                /\ (UNCHANGED <<queued, leased, done>> \/ AllIds' = AllIds)
      ]_vars

\* the second id, allocated for another kind while job 1 is leased
IdsIncreaseNeverReused_witness ==
    /\ ret.op = "enqueue"
    /\ ret.id = 2
    /\ ret.kind = "email"
    /\ 1 \in DOMAIN leased
    /\ leased[1].job.kind = default_kind

(***************************************************************************)
(* C8: fail(id) on a leased job returns Ok, removes that lease only, puts  *)
(* the job, as it was delivered, at the tail of its own kind's queue,      *)
(* leaves the other queues alone and appends one entry to failed; the      *)
(* dequeue that hands a job out again bumps the attempts it finds by one.  *)
(***************************************************************************)
FailRequeuesAtTail ==
    [][/\ \A id \in DOMAIN leased :
             (ret'.op = "fail" /\ ret'.job_id = id)
                => LET job == leased[id].job
                   IN /\ ret'.result = "Ok"
                      /\ DOMAIN leased' = (DOMAIN leased) \ {id}
                      /\ \A o \in DOMAIN leased' : leased'[o] = leased[o]
                      /\ QueueOf(queued', job.kind)
                            = Append(QueueOf(queued, job.kind), job)
                      /\ \A k \in Kinds \ {job.kind} :
                            QueueOf(queued', k) = QueueOf(queued, k)
                      /\ failed' = Append(failed, job)
                      /\ done' = done
       /\ Delivered'
             => ret'.out[1].attempts = Head(queued[ret'.kind]).attempts + 1
      ]_vars

\* a failed job delivered again: attempts 1 in failed, 2 at the new delivery
FailRequeuesAtTail_witness ==
    /\ Delivered
    /\ ret.out[1].attempts = 2
    /\ failed = <<[ret.out[1] EXCEPT !.attempts = 1]>>

(***************************************************************************)
(* C9: reclaim_expired removes exactly the leases with expires_at <= now,  *)
(* keeps the others as they are, and puts each reclaimed job behind the    *)
(* jobs already queued for its kind; leased_count() drops by, and depth()  *)
(* rises by, the number of leases that had expired.                        *)
(***************************************************************************)
ReclaimExactlyExpired ==
    [][ret'.op = "reclaim_expired"
          => LET expired == {id \in DOMAIN leased : leased[id].expires_at <= now}
             IN /\ DOMAIN leased' = (DOMAIN leased) \ expired
                /\ \A id \in DOMAIN leased' :
                      /\ leased'[id] = leased[id]
                      /\ leased[id].expires_at > now
                /\ \A kind \in Kinds :
                      LET q == QueueOf(queued, kind)
                          q2 == QueueOf(queued', kind)
                          back == {leased[id].job : id \in
                                     {e \in expired : leased[e].job.kind = kind}}
                      IN /\ IsPrefix(q, q2)
                         /\ {q2[i] : i \in (Len(q) + 1)..Len(q2)} = back
                         /\ Len(q2) = Len(q) + Cardinality(back)
                /\ leased_count' = leased_count - Cardinality(expired)
                /\ depth' = depth + Cardinality(expired)
      ]_vars

\* a reclaim that took one lease back and left a lease with a later deadline
ReclaimExactlyExpired_witness ==
    /\ ret.op = "reclaim_expired"
    /\ failed = <<>>
    /\ \E j \in QueuedJobs : j.attempts = 1
    /\ \E id \in DOMAIN leased : leased[id].expires_at > now

(***************************************************************************)
(* C10: reclaim_expired leaves failed, done and next_id unchanged and      *)
(* changes no job: the jobs held (queued or leased) are the same records,  *)
(* attempts included, before and after; the dequeue that hands a reclaimed *)
(* job out again therefore bumps attempts once, from the value of the      *)
(* earlier delivery.                                                       *)
(***************************************************************************)
ReclaimFrame ==
    [][/\ ret'.op = "reclaim_expired"
             => /\ UNCHANGED <<failed, done, next_id>>
                /\ QueuedJobs' \cup LeasedJobs' = QueuedJobs \cup LeasedJobs
                /\ delivered' = delivered
       /\ \A id \in 1..MaxJobs :
             (Delivered' /\ ret'.out[1].id = id)
                => ret'.out[1].attempts = delivered[id] + 1
      ]_vars

\* a job delivered twice with no fail in between: the second lease follows a reclaim
ReclaimFrame_witness ==
    /\ Delivered
    /\ failed = <<>>
    /\ done = <<>>
    /\ ret.out[1].attempts = 2
    /\ ret.out[1].id \in DOMAIN leased

(***************************************************************************)
(* C11: lease expiry is lazy.  A lease leaves the lease table only in a    *)
(* complete(id) or fail(id) call on its id or in a reclaim_expired call    *)
(* that finds its deadline passed; time passing removes nothing; a leased  *)
(* job is in no queue; complete(id) and fail(id) on a lease succeed, the   *)
(* deadline passed or not.                                                 *)
(***************************************************************************)
LeaseExpiryIsLazy ==
    [][\A id \in DOMAIN leased :
          /\ id \notin QueuedIds
          /\ id \notin DOMAIN leased'
                => \/ ret'.op \in {"complete", "fail"} /\ ret'.job_id = id
                   \/ ret'.op = "reclaim_expired" /\ leased[id].expires_at <= now
          /\ (ret'.op \in {"complete", "fail"} /\ ret'.job_id = id)
                => /\ ret'.result = "Ok"
                   /\ id \notin DOMAIN leased'
          /\ ret'.op = "tick"
                => /\ leased' = leased
                   /\ leased_count' = leased_count
      ]_vars

\* time has gone past a deadline and the lease is still held
LeaseExpiryIsLazy_witness ==
    /\ ret.op = "tick"
    /\ \E id \in DOMAIN leased : leased[id].expires_at < now
    /\ leased_count > 0

(***************************************************************************)
(* C12: at-least-once delivery.  No allocated id is ever missing from the  *)
(* queues, the lease table and done together.  With time advancing and     *)
(* reclaim_expired and dequeue of every kind called again and again, a     *)
(* lease whose deadline the clock can reach is released, and a queued job  *)
(* is handed out by dequeue, as long as the model still offers deliveries. *)
(***************************************************************************)
NoJobLost == AllIds = 1..(next_id - 1)

AtLeastOnceDelivery ==
    /\ []NoJobLost
    /\ \A id \in 1..MaxJobs :
          /\ (id \in DOMAIN leased)
                ~> (\/ id \notin DOMAIN leased
                    \/ leased[id].expires_at > MaxTime)
          /\ (id \in QueuedIds)
                ~> (\/ id \in DOMAIN leased
                    \/ TotalDelivered = MaxDeliveries)

\* a job handed out again after its lease ran out and was reclaimed
AtLeastOnceDelivery_witness ==
    /\ Delivered
    /\ delivered[ret.out[1].id] = 2
    /\ failed = <<>>
    /\ now > 0

(***************************************************************************)
(* C13, as the spec states it: a job is in exactly one of three states,    *)
(* queued, leased, or resolved (recorded in done or in failed).            *)
(***************************************************************************)
FailedIds == {failed[i].id : i \in DOMAIN failed}
Count(b) == IF b THEN 1 ELSE 0

OneOfThreeStates ==
    \A id \in 1..(next_id - 1) :
        Count(id \in QueuedIds) + Count(id \in DOMAIN leased)
            + Count(id \in DoneIds \cup FailedIds) = 1

(***************************************************************************)
(* C13, amended: a job is in exactly one of queued, leased, or recorded in *)
(* done; a job recorded in done is neither queued nor leased.  A job       *)
(* recorded in failed is, besides, queued, leased or done.                 *)
(***************************************************************************)
OneOfQueuedLeasedDone ==
    /\ \A id \in 1..(next_id - 1) :
          Count(id \in QueuedIds) + Count(id \in DOMAIN leased)
              + Count(id \in DoneIds) = 1
    /\ FailedIds \subseteq AllIds

\* a job recorded in failed and back in its queue
OneOfQueuedLeasedDone_witness ==
    /\ ret.op = "fail"
    /\ ret.result = "Ok"
    /\ ret.job_id \in FailedIds \cap QueuedIds

(***************************************************************************)
(* C14, as the spec states it: every lease has expires_at strictly after   *)
(* the time at which dequeue created it.                                   *)
(***************************************************************************)
LeaseExpiresAfterCreation ==
    [][Delivered' => leased'[ret'.out[1].id].expires_at > now']_vars

(***************************************************************************)
(* C14, amended: a lease created by dequeue(kind, d) at time t has         *)
(* expires_at = t + d: at or after its creation time, strictly after it    *)
(* exactly when d is not zero; no other call changes a deadline.           *)
(***************************************************************************)
LeaseExpiresAtOrAfterCreation ==
    [][/\ \A kind \in Kinds, d \in Durations :
             (dequeue(kind, d) /\ Delivered')
                => LET lease == leased'[ret'.out[1].id]
                   IN /\ lease.expires_at = now' + d
                      /\ lease.expires_at >= now'
                      /\ (lease.expires_at > now') <=> (d > 0)
       /\ \A id \in (DOMAIN leased) \cap (DOMAIN leased') :
             ~(Delivered' /\ ret'.out[1].id = id)
                => leased'[id].expires_at = leased[id].expires_at
      ]_vars

\* a lease taken with a zero duration: its deadline is its creation time
LeaseExpiresAtOrAfterCreation_witness ==
    /\ Delivered
    /\ leased[ret.out[1].id].expires_at = now

(***************************************************************************)
(* C15: with only enqueue and dequeue called, depth() is the number of     *)
(* jobs enqueued minus the number handed out by dequeue, over all kinds;   *)
(* the jobs handed out are the leased ones, which depth() does not count.  *)
(***************************************************************************)
DepthIsEnqueuedMinusDequeued ==
    /\ depth = (next_id - 1) - TotalDelivered
    /\ leased_count = TotalDelivered
    /\ depth = Cardinality(QueuedIds)
    /\ QueuedIds \cap LeasedIds = {}

\* jobs of two kinds enqueued, one of them handed out
DepthIsEnqueuedMinusDequeued_witness ==
    /\ Delivered
    /\ DOMAIN queued = Kinds
    /\ depth = 1
    /\ leased_count = 1

(***************************************************************************)
(* C16: dequeue(kind, d) on a kind whose queue is empty or absent returns  *)
(* none and changes nothing of the scheduler: no lease, no attempts, no    *)
(* queue, the key of an absent kind included.                              *)
(***************************************************************************)
EmptyDequeueChangesNothing ==
    [][(ret'.op = "dequeue" /\ QueueOf(queued, ret'.kind) = <<>>)
          => /\ ret'.out = <<>>
             /\ UNCHANGED <<sched, delivered>>
      ]_vars

\* none for a kind never enqueued, while another kind has work and a lease is held
EmptyDequeueChangesNothing_witness ==
    /\ ret.op = "dequeue"
    /\ ret.out = <<>>
    /\ ret.kind \notin DOMAIN queued
    /\ depth > 0
    /\ leased_count > 0

(***************************************************************************)
(* The event log of src/src/vaultline.rs.  The backing file is a sequence  *)
(* of lines; a line is the sequence of the pieces that writes put on it    *)
(* (one whole record when every write went through).  eol says whether the *)
(* file ends in a newline (an empty file does).                            *)
(***************************************************************************)
MaxFile == 2    \* pieces in the backing file
MaxMem == 2     \* events in one handle's buffer

Handles == {1, 2}
Path == "vaultline.log"
TailInputs == {0, 1, 2}

\* an event with every field set; its message stands for text with a character
\* outside ASCII (halodeck.rs logs the job kind given on the command line)
EvFull == [ts_ms |-> 5, source |-> "epoch", level |-> "warn",
           message |-> "leased", kv |-> "object"]
\* the event normalize_event has most to say about: every field empty
EvBare == [ts_ms |-> 0, source |-> "", level |-> "", message |-> "", kv |-> "null"]
Events == {EvFull, EvBare}
\* the events whose record holds a character of more than one byte
NonAscii == {EvFull}

\* serde_json::to_string: the whole record of an event
to_string(event) == [t |-> "record", ev |-> event]
\* a proper prefix of the record's bytes; utf8 is FALSE when it ends inside a
\* multi-byte character
Truncated(event, utf8) == [t |-> "cut", utf8 |-> utf8]
\* text that is no record
Garbage == [t |-> "text"]

\* serde_json::from_str::<Event>: Ok(ev) as <<ev>>, Err as <<>>; a line decodes
\* only if it is exactly one whole record
from_str(line) ==
    IF Len(line) = 1 /\ line[1].t = "record" THEN <<line[1].ev>> ELSE <<>>

\* whether BufRead::lines can yield the line as a String
is_utf8(line) == \A i \in DOMAIN line : line[i].t = "cut" => line[i].utf8

\* line.trim().is_empty()
is_blank(line) == line = <<>>

RECURSIVE Pieces(_)
Pieces(lines) ==
    IF lines = <<>> THEN 0 ELSE Len(Head(lines)) + Pieces(Tail(lines))

\* write_all of bytes holding no newline, on a file opened with append(true)
write_all(d, piece) ==
    IF d.eol
    THEN [d EXCEPT !.lines = Append(@, <<piece>>), !.eol = FALSE]
    ELSE [d EXCEPT !.lines[Len(d.lines)] = Append(@, piece)]

write_newline_lost(d) == d

\* write_all(b"\n")
write_newline(d) ==
    IF d.eol THEN [d EXCEPT !.lines = Append(@, <<>>)] ELSE [d EXCEPT !.eol = TRUE]

AbsentFile == [exists |-> FALSE, lines |-> <<>>, eol |-> TRUE]
EmptyFile == [exists |-> TRUE, lines |-> <<>>, eol |-> TRUE]
\* two valid records among corrupt and blank lines, the last line corrupt
CorruptFile ==
    [exists |-> TRUE,
     lines |-> << <<to_string(EvFull)>>, <<Garbage>>, <<>>, <<to_string(EvBare)>>,
                  <<Garbage>> >>,
     eol |-> TRUE]
InitialFiles == {AbsentFile, EmptyFile, CorruptFile}

LogInit ==
    /\ SchedulerNew
    /\ RuntimeNew
    /\ disk \in InitialFiles
    /\ vault = <<>>
    /\ lret = [op |-> "none"]
    /\ sent = [clean |-> disk.lines = <<>>, events |-> <<>>]
    /\ replayed = FALSE

\* handles are named in the order they are made
Unopened(h) == h \in Handles \ DOMAIN vault /\ \A g \in Handles \ DOMAIN vault : h <= g

Opened(h, v) == [x \in DOMAIN vault \cup {h} |-> IF x = h THEN v ELSE vault[x]]

\* a faulty new: the file is opened with truncate(true)
new_truncates(h) ==
    /\ Unopened(h)
    /\ \/ /\ \E at \in {"create_dir_all", "open"} :
                lret' = [op |-> "new", h |-> h, result |-> "IoFailure", at |-> at]
          /\ UNCHANGED <<disk, vault>>
       \/ /\ disk' = [exists |-> TRUE, lines |-> <<>>, eol |-> TRUE]
          /\ vault' = Opened(h, [mem |-> <<>>, file |-> <<Path>>])
          /\ lret' = [op |-> "new", h |-> h, result |-> "Ok", at |-> "none"]
    /\ UNCHANGED sent

\* Vaultline::new(path)
new(h) ==
    /\ Unopened(h)
    /\ \/ /\ \E at \in {"create_dir_all", "open"} :
                lret' = [op |-> "new", h |-> h, result |-> "IoFailure", at |-> at]
          /\ UNCHANGED <<disk, vault>>
       \/ /\ disk' = [disk EXCEPT !.exists = TRUE]
          /\ vault' = Opened(h, [mem |-> <<>>, file |-> <<Path>>])
          /\ lret' = [op |-> "new", h |-> h, result |-> "Ok", at |-> "none"]
    /\ UNCHANGED sent

\* Vaultline::new_in_memory()
new_in_memory(h) ==
    /\ Unopened(h)
    /\ vault' = Opened(h, [mem |-> <<>>, file |-> <<>>])
    /\ lret' = [op |-> "new_in_memory", h |-> h, result |-> "Ok", at |-> "none"]
    /\ UNCHANGED <<disk, sent>>

\* where a truncated record of the event can end: inside a multi-byte character
\* only if it holds one
CutEnds(event) == IF event \in NonAscii THEN BOOLEAN ELSE {TRUE}

\* the file part of append (lines 64-73): every way it can go, as
\* <<file afterwards, result, the call that failed>>; sync is whether
\* HYPERION_STRICT_DURABILITY reads "1" during the call
FileAppend(d, event, sync) ==
    LET opened == [d EXCEPT !.exists = TRUE]
        line == write_all(opened, to_string(event))
        full == write_newline(line)
    IN  {<<d, "IoFailure", "open">>}
        \cup {<<opened, "IoFailure", "write_line">>}
        \cup {<<write_all(opened, Truncated(event, u)), "IoFailure", "write_line">> :
                 u \in CutEnds(event)}
        \cup {<<line, "IoFailure", "write_newline">>}
        \cup (IF sync THEN {<<full, "IoFailure", "sync_all">>} ELSE {})
        \cup {<<full, "Ok", "none">>}

Sent(result, event) ==
    IF ~sent.clean THEN sent
    ELSE IF result = "Ok" THEN [sent EXCEPT !.events = Append(@, event)]
    ELSE [clean |-> FALSE, events |-> <<>>]

\* a faulty append: the event is kept in memory only once the file has it
append_pushes_after_write(h, event) ==
    /\ h \in DOMAIN vault
    /\ Len(vault[h].mem) < MaxMem
    /\ IF vault[h].file = <<>>
       THEN /\ vault' = [vault EXCEPT ![h].mem = Append(@, event)]
            /\ lret' = [op |-> "append", h |-> h, event |-> event,
                        result |-> "Ok", at |-> "none"]
            /\ UNCHANGED <<disk, sent>>
       ELSE /\ Pieces(disk.lines) < MaxFile
            /\ \E o \in UNION {FileAppend(disk, event, sync) : sync \in BOOLEAN} :
                /\ vault' = IF o[2] = "Ok"
                            THEN [vault EXCEPT ![h].mem = Append(@, event)]
                            ELSE vault
                /\ disk' = o[1]
                /\ lret' = [op |-> "append", h |-> h, event |-> event,
                            result |-> o[2], at |-> o[3]]
                /\ sent' = Sent(o[2], event)

\* Vaultline::append(event)
append(h, event) ==
    /\ h \in DOMAIN vault
    /\ Len(vault[h].mem) < MaxMem
    /\ vault' = [vault EXCEPT ![h].mem = Append(@, event)]
    /\ IF vault[h].file = <<>>
       THEN /\ lret' = [op |-> "append", h |-> h, event |-> event,
                        result |-> "Ok", at |-> "none"]
            /\ UNCHANGED <<disk, sent>>
       ELSE /\ Pieces(disk.lines) < MaxFile
            /\ \E o \in UNION {FileAppend(disk, event, sync) : sync \in BOOLEAN} :
                /\ disk' = o[1]
                /\ lret' = [op |-> "append", h |-> h, event |-> event,
                            result |-> o[2], at |-> o[3]]
                /\ sent' = Sent(o[2], event)

\* the loop body of load_from_disk over lines that were read: the events pushed
RECURSIVE Replay(_)
Replay(lines) ==
    IF lines = <<>> THEN <<>>
    ELSE (IF is_blank(Head(lines)) THEN <<>> ELSE from_str(Head(lines)))
         \o Replay(Tail(lines))

\* how many lines `line?` yields before a line that is not UTF-8 (all of them
\* if there is none)
Readable(lines) ==
    LET bad == {i \in DOMAIN lines : ~is_utf8(lines[i])}
    IN  IF bad = {} THEN Len(lines)
        ELSE (CHOOSE i \in bad : \A j \in bad : i <= j) - 1

\* every way the read loop can go, as <<lines read, result, what failed>>
ReadLoop(lines) ==
    {<<k, "IoFailure", "read">> : k \in 0..Readable(lines)}
    \cup {IF Readable(lines) = Len(lines)
          THEN <<Len(lines), "Ok", "none">>
          ELSE <<Readable(lines), "IoFailure", "utf8">>}

\* a faulty replay: the buffer is replaced by what was read
load_replaces_buffer(h) ==
    /\ h \in DOMAIN vault
    /\ Len(vault[h].mem) + Len(Replay(disk.lines)) <= MaxMem
    /\ UNCHANGED <<disk, sent>>
    /\ IF vault[h].file = <<>> \/ ~disk.exists
       THEN /\ lret' = [op |-> "load_from_disk", h |-> h, result |-> "Ok",
                        at |-> "none", n |-> 0]
            /\ UNCHANGED vault
       ELSE \/ /\ lret' = [op |-> "load_from_disk", h |-> h, result |-> "IoFailure",
                           at |-> "open", n |-> 0]
               /\ UNCHANGED vault
            \/ \E o \in ReadLoop(disk.lines) :
                LET pushed == Replay(SubSeq(disk.lines, 1, o[1]))
                IN  /\ vault' = [vault EXCEPT ![h].mem = pushed]
                    /\ lret' = [op |-> "load_from_disk", h |-> h, result |-> o[2],
                                at |-> o[3],
                                n |-> IF o[2] = "Ok" THEN Len(pushed) ELSE 0]

\* Vaultline::load_from_disk()
load_from_disk(h) ==
    /\ h \in DOMAIN vault
    /\ Len(vault[h].mem) + Len(Replay(disk.lines)) <= MaxMem
    /\ UNCHANGED <<disk, sent>>
    /\ IF vault[h].file = <<>> \/ ~disk.exists
       THEN /\ lret' = [op |-> "load_from_disk", h |-> h, result |-> "Ok",
                        at |-> "none", n |-> 0]
            /\ UNCHANGED vault
       ELSE \/ /\ lret' = [op |-> "load_from_disk", h |-> h, result |-> "IoFailure",
                           at |-> "open", n |-> 0]
               /\ UNCHANGED vault
            \/ \E o \in ReadLoop(disk.lines) :
                LET pushed == Replay(SubSeq(disk.lines, 1, o[1]))
                IN  /\ vault' = [vault EXCEPT ![h].mem = @ \o pushed]
                    /\ lret' = [op |-> "load_from_disk", h |-> h, result |-> o[2],
                                at |-> o[3],
                                n |-> IF o[2] = "Ok" THEN Len(pushed) ELSE 0]

\* a faulty subtraction: always from the start of the buffer
saturating_sub_zero(a, b) == 0

\* usize::saturating_sub
saturating_sub(a, b) == IF a < b THEN 0 ELSE a - b

\* Vaultline::tail(n)
tail(h, n) ==
    /\ h \in DOMAIN vault
    /\ LET len == Len(vault[h].mem)
           start == saturating_sub(len, n)
       IN  lret' = [op |-> "tail", h |-> h, n |-> n,
                    out |-> SubSeq(vault[h].mem, start + 1, len)]
    /\ UNCHANGED <<disk, vault, sent>>

\* Vaultline::all()
all(h) ==
    /\ h \in DOMAIN vault
    /\ lret' = [op |-> "all", h |-> h, out |-> vault[h].mem]
    /\ UNCHANGED <<disk, vault, sent>>

\* the calls that write: on file-backed handles, without the queries
LogNext ==
    \/ (\E h \in Handles : new(h)) /\ UNCHANGED <<schedvars, rtvars, replayed>>
    \/ (\E h \in Handles, event \in Events : append(h, event)) /\ UNCHANGED <<schedvars, rtvars, replayed>>
    \/ (\E h \in Handles : load_from_disk(h)) /\ UNCHANGED <<schedvars, rtvars, replayed>>

LogSpec == LogInit /\ [][LogNext]_vars

\* every call on the event log
VaultlineNext ==
    \/ (\E h \in Handles : new(h)) /\ UNCHANGED <<schedvars, rtvars, replayed>>
    \/ (\E h \in Handles : new_in_memory(h)) /\ UNCHANGED <<schedvars, rtvars, replayed>>
    \/ (\E h \in Handles, event \in Events : append(h, event)) /\ UNCHANGED <<schedvars, rtvars, replayed>>
    \/ (\E h \in Handles : load_from_disk(h)) /\ UNCHANGED <<schedvars, rtvars, replayed>>
    \/ (\E h \in Handles, n \in TailInputs : tail(h, n)) /\ UNCHANGED <<schedvars, rtvars, replayed>>
    \/ (\E h \in Handles : all(h)) /\ UNCHANGED <<schedvars, rtvars, replayed>>

VaultlineSpec == LogInit /\ [][VaultlineNext]_vars

\* the calls that fill and query the buffer of a handle without a file
QueryNext ==
    \/ (\E h \in Handles : new_in_memory(h)) /\ UNCHANGED <<schedvars, rtvars, replayed>>
    \/ (\E h \in Handles, event \in Events : append(h, event)) /\ UNCHANGED <<schedvars, rtvars, replayed>>
    \/ (\E h \in Handles, n \in TailInputs : tail(h, n)) /\ UNCHANGED <<schedvars, rtvars, replayed>>
    \/ (\E h \in Handles : all(h)) /\ UNCHANGED <<schedvars, rtvars, replayed>>

QuerySpec == LogInit /\ [][QueryNext]_vars

AppendOnly ==
    [][ /\ \A h \in DOMAIN vault : IsPrefix(vault[h].mem, vault'[h].mem)
        /\ IsPrefix(disk.lines, disk'.lines) ]_vars

\* how many whole records the file holds, decodable or not
RECURSIVE RecordCount(_)
RecordCount(lines) ==
    IF lines = <<>> THEN 0
    ELSE Len(SelectSeq(Head(lines), LAMBDA piece : piece.t = "record"))
         + RecordCount(Tail(lines))

LastLine(d) == d.lines[Len(d.lines)]

(***************************************************************************)
(* C19, as the spec states it: when append returns the I/O error, the      *)
(* event is in the handle's buffer and the file holds no record of it.     *)
(***************************************************************************)
FailedAppendLeavesFileUntouched ==
    [][\A h \in Handles, event \in Events :
        (append(h, event) /\ lret'.result = "IoFailure")
        => /\ vault'[h].mem = Append(vault[h].mem, event)
           /\ RecordCount(disk'.lines) = RecordCount(disk.lines)]_vars

(***************************************************************************)
(* C19, amended: when append returns the I/O error, the event is in the    *)
(* handle's buffer.  The file is as it was when the open failed, holds at  *)
(* most a truncated record more when the record write failed, and holds    *)
(* the whole record when the newline write or the sync failed.             *)
(***************************************************************************)
FailedAppendKeepsEventInMemory ==
    [][\A h \in Handles, event \in Events :
        (lret'.op = "append" /\ lret'.result = "IoFailure" /\ append(h, event))
        => /\ vault'[h].mem = Append(vault[h].mem, event)
           /\ lret'.at = "open" => disk' = disk
           /\ lret'.at = "write_line" =>
                RecordCount(disk'.lines) = RecordCount(disk.lines)
           /\ lret'.at \in {"write_newline", "sync_all"} =>
                /\ RecordCount(disk'.lines) = RecordCount(disk.lines) + 1
                /\ LastLine(disk')[Len(LastLine(disk'))] = to_string(event)
                /\ disk'.eol = (lret'.at = "sync_all")]_vars

\* the newline write failed: the caller has the error, the buffer and the file
\* both have the event
FailedAppendKeepsEventInMemory_witness ==
    /\ lret.op = "append"
    /\ lret.result = "IoFailure"
    /\ lret.at = "write_newline"
    /\ vault[lret.h].mem[Len(vault[lret.h].mem)] = lret.event
    /\ LastLine(disk) = <<to_string(lret.event)>>

\* the events of the lines that are valid records, in file order
ValidEvents(lines) ==
    LET valid == SelectSeq(lines, LAMBDA line : from_str(line) # <<>>)
    IN  [i \in DOMAIN valid |-> from_str(valid[i])[1]]

(***************************************************************************)
(* C20, as the spec states it: load_from_disk on an existing file, unless  *)
(* the read itself fails, returns Ok with the number of valid records and  *)
(* appends exactly their events to the buffer in file order, whatever      *)
(* malformed or blank lines the file holds.                                *)
(***************************************************************************)
ReplaySkipsUndecodable ==
    [][\A h \in Handles :
        ( /\ load_from_disk(h)
          /\ vault[h].file # <<>>
          /\ disk.exists
          /\ lret'.at \notin {"open", "read"} )
        => /\ lret'.result = "Ok"
           /\ lret'.n = Len(ValidEvents(disk.lines))
           /\ vault'[h].mem = vault[h].mem \o ValidEvents(disk.lines)]_vars

Min(a, b) == IF a < b THEN a ELSE b

(***************************************************************************)
(* C21: tail(n) returns the last min(n, total) events of the handle's      *)
(* buffer in insertion order, tail(0) returns the empty sequence, and the  *)
(* call changes neither a buffer nor the file.                             *)
(***************************************************************************)
TailReturnsLast ==
    [][\A h \in Handles, n \in TailInputs :
        (lret'.op = "tail" /\ tail(h, n))
        => LET mem == vault[h].mem
               total == Len(mem)
               k == Min(n, total)
           IN  /\ lret'.out = [i \in 1..k |-> mem[total - k + i]]
               /\ n = 0 => lret'.out = <<>>
               /\ UNCHANGED <<vault, disk>>]_vars

\* tail(1) on a buffer of two different events returned the later one
TailReturnsLast_witness ==
    /\ lret.op = "tail"
    /\ lret.n = 1
    /\ Len(vault[lret.h].mem) = 2
    /\ vault[lret.h].mem[1] # vault[lret.h].mem[2]
    /\ lret.out = <<vault[lret.h].mem[2]>>

(***************************************************************************)
(* C22: new(path) returns a handle with an empty buffer and leaves the     *)
(* file's lines as they are, whatever the file holds; a buffer changes     *)
(* only by its handle's own append, which adds the one event given, or by  *)
(* its handle's own load_from_disk.                                        *)
(***************************************************************************)
NewNeverLoads ==
    [][ /\ \A h \in Handles :
            (lret'.op = "new" /\ new(h))
            => /\ disk'.lines = disk.lines /\ disk'.eol = disk.eol
               /\ lret'.result = "Ok" =>
                    vault'[h].mem = <<>> /\ vault'[h].file = <<Path>>
               /\ \A g \in DOMAIN vault : vault'[g] = vault[g]
        /\ \A h \in DOMAIN vault :
            vault'[h].mem # vault[h].mem
            => /\ lret'.op \in {"append", "load_from_disk"}
               /\ lret'.h = h
               /\ lret'.op = "append" =>
                    vault'[h].mem = Append(vault[h].mem, lret'.event) ]_vars

\* a handle was just opened on a file that holds records, and its buffer is empty
NewNeverLoads_witness ==
    /\ lret.op = "new"
    /\ lret.result = "Ok"
    /\ vault[lret.h].mem = <<>>
    /\ RecordCount(disk.lines) = 2

(***************************************************************************)
(* Vaultline::normalize_event, applied to an event the caller holds: lret  *)
(* keeps the event before the call (arg) and after it (ev).                *)
(***************************************************************************)
Timestamps == {0, 5}
Sources == {"", "epoch"}
Levels == {"", "warn", "info"}
Messages == {"", "leased"}
\* serde_json::Value: Null, an object without members, an object with members
Kvs == {"null", "empty object", "object"}
AnyEvents ==
    [ts_ms : Timestamps, source : Sources, level : Levels, message : Messages,
     kv : Kvs]
\* SystemTime::now() in milliseconds since UNIX_EPOCH
Clocks == {7, 9}

\* a faulty normalize: the timestamp is always set to the current time
Normalized_always_stamps(event, clock) ==
    [ts_ms |-> clock,
     source |-> IF event.source = "" THEN "unknown" ELSE event.source,
     level |-> IF event.level = "" THEN "info" ELSE event.level,
     message |-> IF event.message = "" THEN "(no message)" ELSE event.message,
     kv |-> IF event.kv = "null" THEN "empty object" ELSE event.kv]

\* the event normalize_event leaves behind when the clock reads clock
Normalized(event, clock) ==
    [ts_ms |-> IF event.ts_ms = 0 THEN clock ELSE event.ts_ms,
     source |-> IF event.source = "" THEN "unknown" ELSE event.source,
     level |-> IF event.level = "" THEN "info" ELSE event.level,
     message |-> IF event.message = "" THEN "(no message)" ELSE event.message,
     kv |-> IF event.kv = "null" THEN "empty object" ELSE event.kv]

\* the caller holds some event
NormalizeInit ==
    /\ SchedulerNew
    /\ RuntimeNew
    /\ disk = AbsentFile
    /\ vault = <<>>
    /\ sent = [clean |-> TRUE, events |-> <<>>]
    /\ replayed = FALSE
    /\ \E event \in AnyEvents : lret = [op |-> "event", ev |-> event]

\* Vaultline::normalize_event(&mut ev)
normalize_event(clock) ==
    /\ lret' = [op |-> "normalize_event", arg |-> lret.ev,
                ev |-> Normalized(lret.ev, clock)]
    /\ UNCHANGED <<disk, vault, sent>>

NormalizeNext ==
    \/ (\E clock \in Clocks : normalize_event(clock)) /\ UNCHANGED <<schedvars, rtvars, replayed>>

NormalizeSpec == NormalizeInit /\ [][NormalizeNext]_vars

(***************************************************************************)
(* C23: normalize_event sets an empty level to "info", an empty source to  *)
(* "unknown", an empty message to "(no message)", a zero ts_ms to the      *)
(* positive current time and a null kv to an empty object, leaves every    *)
(* other field as it is, and applied to its own result changes nothing.    *)
(***************************************************************************)
NormalizeFillsMissing ==
    [][lret'.op = "normalize_event" =>
        LET a == lret'.arg
            e == lret'.ev
        IN  /\ e.level = (IF a.level = "" THEN "info" ELSE a.level)
            /\ e.source = (IF a.source = "" THEN "unknown" ELSE a.source)
            /\ e.message = (IF a.message = "" THEN "(no message)" ELSE a.message)
            /\ e.kv = (IF a.kv = "null" THEN "empty object" ELSE a.kv)
            /\ a.ts_ms = 0 => e.ts_ms > 0
            /\ a.ts_ms # 0 => e.ts_ms = a.ts_ms
            /\ lret.op = "normalize_event" => e = a]_vars

\* the event with every field missing was normalized, and then normalized again
\* under another clock reading
NormalizeFillsMissing_witness ==
    /\ lret.op = "normalize_event"
    /\ lret.arg \in {Normalized(EvBare, clock) : clock \in Clocks}
    /\ lret.ev = lret.arg
    /\ lret.ev.source = "unknown" /\ lret.ev.level = "info"
    /\ lret.ev.message = "(no message)" /\ lret.ev.kv = "empty object"
    /\ lret.ev.ts_ms > 0

(***************************************************************************)
(* The module registry of src/src/axiom.rs (the same code is in lib.rs).   *)
(* A module is known by its place in Runtime.modules; what start and stop  *)
(* of a module return is up to the module, so each call's result is drawn  *)
(* from Ok and Err.  pass keeps the module calls the last pass made.        *)
(***************************************************************************)
MaxModules == 4

RuntimeInit == SchedulerNew /\ NoLog /\ RuntimeNew

\* Runtime::register(m)
register ==
    /\ Len(modules) < MaxModules
    /\ modules' = Append(modules, [running |-> FALSE])
    /\ pass' = [op |-> "register", calls |-> <<>>, result |-> "Ok"]

\* a faulty order: the iterator as it is
rev_forgotten(order) == order

\* Iterator::rev
rev(order) == [i \in 1..Len(order) |-> order[Len(order) - i + 1]]

\* modules.iter_mut(): the places of Runtime.modules from the first on
iter_mut == [i \in 1..Len(modules) |-> i]

\* `for m in order { m.call()?; }` from the i-th step on, where results[m] is
\* what the call on m returns: the calls made and what the pass returns
RECURSIVE ForEach(_, _, _, _, _)
ForEach(call, order, results, i, calls) ==
    IF i > Len(order) THEN [calls |-> calls, result |-> "Ok"]
    ELSE LET made == Append(calls, [call |-> call, module |-> order[i],
                                    result |-> results[order[i]]])
         IN  IF results[order[i]] = "Err"
             THEN [calls |-> made, result |-> "Err"]
             ELSE ForEach(call, order, results, i + 1, made)

\* the modules after the calls of a pass: a call that returned Ok has set running
After(calls, running) ==
    [m \in 1..Len(modules) |->
        IF \E i \in DOMAIN calls : calls[i].module = m /\ calls[i].result = "Ok"
        THEN [running |-> running]
        ELSE modules[m]]

\* Runtime::start_all
start_all ==
    \E results \in [1..Len(modules) -> {"Ok", "Err"}] :
        LET done_pass == ForEach("start", iter_mut, results, 1, <<>>)
        IN  /\ pass' = [op |-> "start_all", calls |-> done_pass.calls,
                        result |-> done_pass.result]
            /\ modules' = After(done_pass.calls, TRUE)

\* Runtime::stop_all
stop_all ==
    \E results \in [1..Len(modules) -> {"Ok", "Err"}] :
        LET done_pass == ForEach("stop", rev(iter_mut), results, 1, <<>>)
        IN  /\ pass' = [op |-> "stop_all", calls |-> done_pass.calls,
                        result |-> done_pass.result]
            /\ modules' = After(done_pass.calls, FALSE)

\* the loop of overall_health from the i-th module on, where healths[m] is what
\* health() of module m returns: the calls made and the health returned
RECURSIVE FirstNonHealthy(_, _, _)
FirstNonHealthy(healths, i, calls) ==
    IF i > Len(modules) THEN [calls |-> calls, result |-> "Healthy"]
    ELSE LET made == Append(calls, [call |-> "health", module |-> i,
                                    result |-> healths[i]])
         IN  IF healths[i] = "Healthy"
             THEN FirstNonHealthy(healths, i + 1, made)
             ELSE [calls |-> made, result |-> healths[i]]

\* Runtime::overall_health
overall_health ==
    \E healths \in [1..Len(modules) -> {"Healthy", "Degraded", "Unhealthy"}] :
        LET done_pass == FirstNonHealthy(healths, 1, <<>>)
        IN  /\ pass' = [op |-> "overall_health", calls |-> done_pass.calls,
                        result |-> done_pass.result]
            /\ UNCHANGED modules

RuntimeNext ==
    \/ register /\ UNCHANGED <<schedvars, logvars>>
    \/ overall_health /\ UNCHANGED <<schedvars, logvars>>
    \/ start_all /\ UNCHANGED <<schedvars, logvars>>
    \/ stop_all /\ UNCHANGED <<schedvars, logvars>>

RuntimeSpec == RuntimeInit /\ [][RuntimeNext]_vars

(***************************************************************************)
(* C24: the calls of a start_all pass go to the modules in registration    *)
(* order and those of a stop_all pass in the reverse of it; every call     *)
(* before the last returned Ok, the pass returns the result of its last    *)
(* call, and a pass that returns Ok has called every module.               *)
(***************************************************************************)
LifecycleOrder ==
    LET n == Len(pass.calls) IN
    pass.op \in {"start_all", "stop_all"} =>
        /\ n <= Len(modules)
        /\ \A i \in 1..n :
            /\ pass.calls[i].module =
                 (IF pass.op = "start_all" THEN i ELSE Len(modules) - i + 1)
            /\ pass.calls[i].call = (IF pass.op = "start_all" THEN "start" ELSE "stop")
            /\ i < n => pass.calls[i].result = "Ok"
        /\ pass.result = "Ok" =>
            n = Len(modules) /\ \A i \in 1..n : pass.calls[i].result = "Ok"
        /\ pass.result = "Err" => n > 0 /\ pass.calls[n].result = "Err"

\* stop_all has stopped three running modules, the last registered first
LifecycleOrder_witness ==
    /\ pass.op = "stop_all"
    /\ pass.result = "Ok"
    /\ Len(modules) = 3
    /\ [i \in 1..3 |-> pass.calls[i].module] = <<3, 2, 1>>
    /\ \A m \in 1..3 : ~modules[m].running

\* in how many places of the kind queues, the lease table and done an id is
Occurrences(id) ==
    Cardinality({p \in QueuePlaces : queued[p[1]][p[2]].id = id})
    + Count(id \in DOMAIN leased)
    + Cardinality({i \in DOMAIN done : done[i].id = id})

(***************************************************************************)
(* C25: conservation of jobs.  Every id allocated so far, 1 .. next_id-1,  *)
(* is in exactly one place among the kind queues, the lease table and the  *)
(* done history, and no other id is anywhere; so depth() + leased_count()  *)
(* + |done| is the number of enqueue calls, and done holds an id at most   *)
(* once.                                                                   *)
(***************************************************************************)
JobConservation ==
    /\ \A id \in 1..(next_id - 1) : Occurrences(id) = 1
    /\ AllIds \cup FailedIds \subseteq 1..(next_id - 1)
    /\ depth + leased_count + Len(done) = next_id - 1
    /\ \A i, j \in DOMAIN done : done[i].id = done[j].id => i = j

\* the failed history holds one id twice while that job is queued again
JobConservation_witness ==
    /\ next_id - 1 = 2
    /\ \E i, j \in DOMAIN failed :
        /\ i # j
        /\ failed[i].id = failed[j].id
        /\ failed[i].id \in QueuedIds

(***************************************************************************)
(* C26: a lease names no holder.  complete(id) and fail(id) return Ok      *)
(* exactly when the id has a lease at the time of the call, whichever      *)
(* delivery made that lease and whether or not its deadline has passed,    *)
(* and afterwards the id has no lease, so the next complete(id) or         *)
(* fail(id) without a new delivery returns NotLeased.                      *)
(***************************************************************************)
LeaseHasNoHolder ==
    [][ret'.op \in {"complete", "fail"} =>
        /\ (ret'.result = "Ok") = (ret'.job_id \in DOMAIN leased)
        /\ (ret'.result = "NotLeased") = (ret'.job_id \notin DOMAIN leased)
        /\ ret'.job_id \notin DOMAIN leased']_vars

\* the job was delivered, reclaimed and delivered again; one complete(id) has
\* released the second lease and the next one was told NotLeased
LeaseHasNoHolder_witness ==
    /\ ret.op = "complete"
    /\ ret.result = "NotLeased"
    /\ delivered[ret.job_id] = 2
    /\ failed = <<>>
    /\ ret.job_id \in DoneIds
    /\ ret.job_id \notin DOMAIN leased

\* the calls that write, with the history of load_from_disk calls
ReplayNext ==
    \/ (\E h \in Handles : new(h)) /\ UNCHANGED <<schedvars, rtvars, replayed>>
    \/ (\E h \in Handles, event \in Events : append(h, event))
            /\ UNCHANGED <<schedvars, rtvars, replayed>>
    \/ (\E h \in Handles : load_from_disk(h)) /\ replayed' = TRUE
            /\ UNCHANGED <<schedvars, rtvars>>

ReplaySpec == LogInit /\ [][ReplayNext]_vars

(***************************************************************************)
(* C27, as the spec states it: the buffer of a file-backed handle equals   *)
(* the file's records only when load_from_disk was called on the handle    *)
(* (exactly once, on an empty buffer, every later append succeeding).      *)
(* Stated for a buffer that holds events, and asking only that             *)
(* load_from_disk has been called at all.                                  *)
(***************************************************************************)
BufferIsFileOnlyAfterLoad ==
    \A h \in DOMAIN vault :
        ( /\ vault[h].file # <<>>
          /\ vault[h].mem # <<>>
          /\ vault[h].mem = ValidEvents(disk.lines) )
        => replayed

(***************************************************************************)
(* C27: load_from_disk extends the buffer: every call leaves the buffer B  *)
(* of its handle as a prefix of the new buffer, and a call that returns Ok *)
(* on a file that holds the valid records F leaves the buffer equal to B   *)
(* followed by F and returns |F|, so that after a buffer that already      *)
(* holds F it leaves F twice; the call changes neither the file nor        *)
(* another handle's buffer.  Without any load_from_disk call, the buffer   *)
(* of the only handle on a file that had no lines when it was opened       *)
(* equals the file's records for as long as every append returns Ok.       *)
(***************************************************************************)
LoadExtendsBuffer ==
    /\ [][\A h \in Handles :
        ( /\ lret'.op = "load_from_disk"
          /\ lret'.h = h
          /\ replayed' # replayed \/ vault' # vault \/ lret' # lret )
        => LET B == vault[h].mem
               F == ValidEvents(disk.lines)
           IN  /\ IsPrefix(B, vault'[h].mem)
               /\ lret'.result = "Ok" =>
                    /\ vault'[h].mem = B \o F
                    /\ lret'.n = Len(F)
                    /\ B = F => vault'[h].mem = F \o F
               /\ disk' = disk
               /\ \A g \in DOMAIN vault \ {h} : vault'[g] = vault[g]]_vars
    /\ [](( /\ DOMAIN vault = {1}
            /\ ~replayed
            /\ sent.clean )
          => vault[1].mem = ValidEvents(disk.lines))

LoadExtendsBuffer_witness ==
    /\ lret.op = "load_from_disk"
    /\ lret.result = "Ok"
    /\ lret.n = 1
    /\ sent.clean
    /\ ValidEvents(disk.lines) # <<>>
    /\ vault[lret.h].mem = ValidEvents(disk.lines) \o ValidEvents(disk.lines)

\* the leases of a kind that a reclaim_expired call at this moment takes back
ExpiredOfKind(kind) == {id \in ExpiredIds(leased, now) : leased[id].job.kind = kind}

\* the ways to arrange the ids of S in a row
Arrangements(S) ==
    {o \in [1..Cardinality(S) -> S] : {o[i] : i \in DOMAIN o} = S}

(***************************************************************************)
(* C28: reclaim_expired leaves every queue as it was, followed by the jobs *)
(* of the kind's expired leases, each once and as the lease held it; and   *)
(* whenever leases of one kind are expired, a reclaim_expired call can     *)
(* leave their jobs behind the queue in every arrangement.                 *)
(***************************************************************************)
ReclaimOrderUndetermined ==
    /\ [][ret'.op = "reclaim_expired" =>
            \A kind \in Kinds :
                \E o \in Arrangements(ExpiredOfKind(kind)) :
                    QueueOf(queued', kind) =
                        QueueOf(queued, kind) \o [i \in DOMAIN o |-> leased[o[i]].job]]_vars
    /\ [](\A kind \in Kinds :
            \A o \in Arrangements(ExpiredOfKind(kind)) :
                ENABLED ( /\ reclaim_expired
                          /\ QueueOf(queued', kind) =
                                QueueOf(queued, kind)
                                    \o [i \in DOMAIN o |-> leased[o[i]].job] ))

\* jobs 1 and 2, dequeued in that order and never reclaimed before, are back in one
\* queue with 2 ahead of 1
ReclaimOrderUndetermined_witness ==
    /\ ret.op = "reclaim_expired"
    /\ now = 0
    /\ \E kind \in DOMAIN queued :
        /\ Len(queued[kind]) = 2
        /\ queued[kind][1].id = 2
        /\ queued[kind][2].id = 1
        /\ queued[kind][1].attempts = 1
        /\ queued[kind][2].attempts = 1

====
